---- MODULE Spec2Model ----
(***************************************************************************)
(* Model of the eSCL scan state machine of paperless-scanner:              *)
(* ESCLScanner.Scan, createScanJob, downloadDocument, getScannerStatus and *)
(* promptUserToDismissError (escl_scanner.go).  One run of Scan against a  *)
(* device whose responses are chosen nondeterministically at each request. *)
(***************************************************************************)
EXTENDS Integers, Sequences, FiniteSets, TLC

(***************************************************************************)
(* Bounds of the model.                                                    *)
(***************************************************************************)
\* longest response body the device serves on a retrieval GET
MaxBodyLen == 1

(***************************************************************************)
(* Program constants.                                                      *)
(***************************************************************************)
StatusOK == 200
StatusCreated == 201
StatusNotFound == 404
StatusServiceUnavailable == 503
\* variant: one attempt fewer
maxRetriesCreate_Four == 5 - 1

\* maxRetries of createScanJob
maxRetriesCreate == 5
\* variant: two more turns of the retrieval loop
maxRetriesDownload_ThirtyTwo == 30 + 2
\* maxRetries of downloadDocument
maxRetriesDownload == 30

(***************************************************************************)
(* Strings the code inspects character by character are sequences of       *)
(* one-character strings; Str names the ones the code compares them with.  *)
(***************************************************************************)
ExtPdf == <<".", "p", "d", "f">>
ExtPng == <<".", "p", "n", "g">>
ExtJpg == <<".", "j", "p", "g">>
ExtJpeg == <<".", "j", "p", "e", "g">>

UpperLetters == <<"A","B","C","D","E","F","G","H","I","J","K","L","M",
                  "N","O","P","Q","R","S","T","U","V","W","X","Y","Z">>
LowerLetters == <<"a","b","c","d","e","f","g","h","i","j","k","l","m",
                  "n","o","p","q","r","s","t","u","v","w","x","y","z">>

\* strings.ToLower, one character
ToLowerChar(c) ==
  IF \E k \in 1..Len(UpperLetters) : UpperLetters[k] = c
  THEN LowerLetters[CHOOSE k \in 1..Len(UpperLetters) : UpperLetters[k] = c]
  ELSE c

\* strings.ToLower
ToLower(s) == [k \in 1..Len(s) |-> ToLowerChar(s[k])]

\* the characters strings.TrimSpace strips
IsSpace(c) == c \in {" ", "\t", "\n", "\r"}

\* strings.TrimSpace
TrimSpace(s) ==
  LET nonSpace == {k \in 1..Len(s) : ~IsSpace(s[k])}
  IN IF nonSpace = {} THEN <<>>
     ELSE LET first == CHOOSE k \in nonSpace : \A j \in nonSpace : k <= j
              last == CHOOSE k \in nonSpace : \A j \in nonSpace : k >= j
          IN SubSeq(s, first, last)

(***************************************************************************)
(* Inputs of the model: what the caller, the device, the file system and   *)
(* the operator can supply.                                                *)
(***************************************************************************)
\* the format argument of Scan
Formats == { <<>>, ExtPdf, <<".", "P", "N", "G">>, ExtJpg, <<".", "J", "p", "e", "g">>,
             <<".", "t", "x", "t">> }

\* bytes of a scanned document
Bytes == {1}

RECURSIVE SeqsUpTo(_, _)
SeqsUpTo(S, n) ==
  IF n = 0 THEN { <<>> }
  ELSE LET shorter == SeqsUpTo(S, n - 1)
       IN shorter \cup { Append(s, x) : s \in {t \in shorter : Len(t) = n - 1}, x \in S }

\* bodies of a 200 retrieval response
Bodies == SeqsUpTo(Bytes, MaxBodyLen)

\* Location header values of a 201 response: a path as its segments,
\* <<"eSCL","ScanJobs","7">> for /eSCL/ScanJobs/7; <<>> is the absent header
Locations == { <<>>, <<"eSCL", "ScanJobs", "7">>, <<"eSCL", "ScanJobs", "">>, <<"jobs", "7">> }

\* statuses of the device's answer to the submission POST
PostStatuses == {StatusCreated, StatusServiceUnavailable, 400, 500}

\* bodies of a non-201 answer to the submission POST
ErrorBodies == {"", "busy"}

\* statuses of the device's answer to the retrieval GET
GetStatuses == {StatusOK, StatusNotFound, StatusServiceUnavailable, 500}

\* answers of the device to the status GET: no response at all, a non-200
\* status, a 200 with a malformed document, a 200 with a ScannerStatus
ProbeResponses ==
  { [transport |-> FALSE, status |-> 0, wellFormed |-> FALSE, State |-> ""],
    [transport |-> TRUE, status |-> StatusServiceUnavailable, wellFormed |-> FALSE, State |-> ""],
    [transport |-> TRUE, status |-> StatusOK, wellFormed |-> FALSE, State |-> ""] }
  \cup { [transport |-> TRUE, status |-> StatusOK, wellFormed |-> TRUE, State |-> st] :
           st \in {"Idle", "Processing", "Jamming"} }

\* what the operator types at the prompt, newline included; eof marks a
\* read that ended without a newline (ReadString returns an error)
Inputs ==
  { [line |-> <<"\n">>, eof |-> FALSE],
    [line |-> <<"q", "\n">>, eof |-> FALSE],
    [line |-> <<" ", "Q", "u", "i", "t", " ", "\n">>, eof |-> FALSE],
    [line |-> <<"y", "\n">>, eof |-> FALSE],
    [line |-> <<"q", "u", "\n">>, eof |-> FALSE],
    [line |-> <<"y">>, eof |-> TRUE],
    [line |-> <<>>, eof |-> TRUE] }

\* nothing has been read
NoInput == [line |-> <<>>, eof |-> FALSE]

(***************************************************************************)
(* Values.                                                                 *)
(***************************************************************************)
\* the destination file does not exist
Absent == [exists |-> FALSE, data |-> <<>>]
\* the destination file holds data
FileOf(data) == [exists |-> TRUE, data |-> data]
\* the empty path Scan returns with an error
NoPath == <<>>
\* a nil error
NoErr == [wrap |-> "", msg |-> "", status |-> 0, body |-> ""]

Err(wrap, msg) == [wrap |-> wrap, msg |-> msg, status |-> 0, body |-> ""]
ErrStatus(wrap, msg, status, body) == [wrap |-> wrap, msg |-> msg, status |-> status, body |-> body]

WrapCreate == "failed to create scan job"
WrapDownload == "failed to download scan"
RejectedMsg == "failed to create scan job, status"
AbortedMsg == "scan aborted by user"
NotReadyMsg == "scan document not ready after 30 attempts"
UnexpectedMsg == "unexpected status code"
UnsupportedMsg == "unsupported output format"
CopyFailedMsg == "copy failed"
ExhaustedMsg == "failed to create scan job after 5 attempts"
\* the error of client.Do or http.Get, returned as it is
TransportMsg == "transport error"

VARIABLES
  pc,            \* position of Scan: idle, submit, gateC, grace, poll, gateD, verify, done, failed
  format,        \* Scan's format after defaulting
  scanSettings,  \* Scan's scanSettings, the payload of the POST
  jobURL,        \* location returned by createScanJob
  attempt,       \* createScanJob: loop counter
  promptedC,     \* createScanJob: userPromptedFor503
  i,             \* downloadDocument: loop counter
  promptedD,     \* downloadDocument: userPromptedFor503
  file,          \* outputFile on the file system: Absent or FileOf(data)
  result,        \* path returned by Scan
  err,           \* error returned by Scan
  net,           \* requests issued: POSTs, GETs, status probes of createScanJob
  prompts,       \* invocations of promptUserToDismissError in each phase
  sleeps,        \* sleeps taken: backoff (2s), grace (2s), poll (1s)
  hist,          \* what the run has observed so far (history, not program state)
  mpc,           \* position of main: none (Scan called on its own), start, select, scan,
                 \* upload, cleanup, exit
  outputPath,    \* main: the -output flag
  uploadToPaperless, \* main: the --upload-to-paperless flag
  config,        \* main: the Config loadConfig returned
  outputFormat,  \* main: outputFormat
  scanner,       \* main: the scanner that was built: none, escl (esclScanner), sane (scanner)
  scanFile,      \* main: scanFile
  saved,         \* the file at outputPath on the file system
  exit,          \* how the process ended: code and the fatal message
  uploads,       \* the documents the Paperless server was sent
  call,          \* loadConfig called on its own: its arguments and the environment
  loaded         \* loadConfig called on its own: what it returned

mainVars == <<mpc, outputPath, uploadToPaperless, config, outputFormat, scanner, scanFile, saved,
              exit, uploads, call, loaded>>

vars == <<pc, format, scanSettings, jobURL, attempt, promptedC, i, promptedD, file, result, err,
          net, prompts, sleeps, hist, mpc, outputPath, uploadToPaperless, config, outputFormat,
          scanner, scanFile, saved, exit, uploads, call, loaded>>


(***************************************************************************)
(* Pure functions of escl_scanner.go.                                      *)
(***************************************************************************)
\* variant: the extension is compared as it is given
getESCLMimeType_CaseSensitive(ext) ==
  IF ext = ExtPdf THEN [ok |-> TRUE, mime |-> "application/pdf"]
  ELSE IF ext = ExtPng THEN [ok |-> TRUE, mime |-> "image/png"]
  ELSE IF ext = ExtJpg \/ ext = ExtJpeg THEN [ok |-> TRUE, mime |-> "image/jpeg"]
  ELSE [ok |-> FALSE, mime |-> ""]

\* getESCLMimeType: the MIME type of an extension, ok = FALSE for the error
getESCLMimeType(ext) ==
  LET lower == ToLower(ext)
  IN IF lower = ExtPdf THEN [ok |-> TRUE, mime |-> "application/pdf"]
     ELSE IF lower = ExtPng THEN [ok |-> TRUE, mime |-> "image/png"]
     ELSE IF lower = ExtJpg \/ lower = ExtJpeg THEN [ok |-> TRUE, mime |-> "image/jpeg"]
     ELSE [ok |-> FALSE, mime |-> ""]

\* Scan: "Default to PDF if no format specified"
DefaultFormat(f) == IF f = <<>> THEN ExtPdf ELSE f

\* Scan: scanSettings, the ScanSettings document with its DocumentFormat
ScanSettings(mimeType) ==
  [ Version |-> "2.0", Intent |-> "Document", Width |-> 2550, Height |-> 3508,
    InputSource |-> "Platen", ColorMode |-> "RGB24", XResolution |-> 300,
    YResolution |-> 300, DocumentFormat |-> mimeType ]

\* the payload before Scan has built it
NoSettings == ScanSettings("")

\* createScanJob: bytes.NewBufferString(settings), the body of the n-th POST
RequestBody(settings, n) == settings

\* Scan: outputFile, tmpDir/scan-<timestamp><format>
OutputFile(f) == <<"tmp", "paperless-scanner", "scan-timestamp">> \o f

\* variant: a status that was parsed once is returned again
getScannerStatus_Cached(resp) ==
  IF hist.lastProbe.ok THEN hist.lastProbe
  ELSE IF ~resp.transport THEN [ok |-> FALSE, State |-> ""]
  ELSE IF resp.status # StatusOK THEN [ok |-> FALSE, State |-> ""]
  ELSE IF ~resp.wellFormed THEN [ok |-> FALSE, State |-> ""]
  ELSE [ok |-> TRUE, State |-> resp.State]

\* getScannerStatus: the parsed status, ok = FALSE for each of the errors
getScannerStatus(resp) ==
  IF ~resp.transport THEN [ok |-> FALSE, State |-> ""]
  ELSE IF resp.status # StatusOK THEN [ok |-> FALSE, State |-> ""]
  ELSE IF ~resp.wellFormed THEN [ok |-> FALSE, State |-> ""]
  ELSE [ok |-> TRUE, State |-> resp.State]

\* variant: the answer is compared in the case it was typed in
promptUserToDismissError_CaseSensitive(input) ==
  IF input.eof THEN FALSE
  ELSE LET trimmed == TrimSpace(input.line)
       IN trimmed # <<"q", "u", "i", "t">> /\ trimmed # <<"q">>

\* promptUserToDismissError: TRUE to retry, FALSE to abort
promptUserToDismissError(input) ==
  IF input.eof THEN FALSE
  ELSE LET trimmed == TrimSpace(ToLower(input.line))
       IN trimmed # <<"q", "u", "i", "t">> /\ trimmed # <<"q">>

\* downloadDocument: regexp /ScanJobs/(.+)$ on the job URL; the positions of
\* a ScanJobs segment followed by a non-empty rest
JobMatches(url) ==
  { k \in 1..Len(url) : /\ url[k] = "ScanJobs"
                        /\ k < Len(url)
                        /\ (Len(url) > k + 1 \/ url[k + 1] # "") }

\* downloadDocument: len(matches) < 2 is the invalid job URL
ValidJobURL(url) == JobMatches(url) # {}

\* downloadDocument: jobID, the rest after the leftmost match
JobID(url) ==
  LET k == CHOOSE m \in JobMatches(url) : \A n \in JobMatches(url) : m <= n
  IN SubSeq(url, k + 1, Len(url))

\* variant: the request's error is not checked
TransportFailed_Unchecked(resp) == FALSE

\* createScanJob, downloadDocument: if err != nil after the request
TransportFailed(resp) == ~resp.transport

\* variant: the userPromptedFor503 flag is not consulted
Needs503PromptCreate_NoFlag(status, prompted) ==
  status = StatusServiceUnavailable

\* createScanJob: a 503 is escalated to the operator
Needs503PromptCreate(status, prompted) ==
  status = StatusServiceUnavailable /\ ~prompted

\* variant: the operator is prompted for an error state only, as in downloadDocument
PromptsAfterProbe_ErrorStateOnly(probed) ==
  probed.ok /\ probed.State \notin {"Idle", "Processing"}

\* createScanJob: the probe's result is logged, error or not, and the prompt follows
PromptsAfterProbe(probed) ==
  probed.ok \in BOOLEAN

\* variant: the last attempt is not tested, a 503 is always retried
IsTerminalCreate_Not503Only(att, status) ==
  status # StatusServiceUnavailable

\* variant: only the last attempt returns the error
IsTerminalCreate_LastOnly(att, status) ==
  att = maxRetriesCreate - 1

\* variant: the last attempt is taken to be attempt == maxRetries
IsTerminalCreate_OffByOne(att, status) ==
  att = maxRetriesCreate \/ status # StatusServiceUnavailable

\* createScanJob: "For last attempt or non-503 errors, return the error"
IsTerminalCreate(att, status) ==
  att = maxRetriesCreate - 1 \/ status # StatusServiceUnavailable

\* variant: the backoff sleep is taken before the first attempt as well
BackoffBefore_Always(att) == att >= 0

\* createScanJob: the backoff sleep at the head of the loop
BackoffBefore(att) == att > 0

\* variant: the counter is set to 0, which the loop's attempt++ makes 1
AttemptAfterContinue_Zero == -1 + 1

\* createScanJob: attempt = -1 after the operator dismissed the error
AttemptAfterContinue == -1

\* variant: the Location header is not checked
HasLocation_Unchecked(location) == TRUE

\* createScanJob: location == "" is the missing Location header
HasLocation(location) == location # <<>>

\* variant: the error of io.Copy is dropped
CopyFailed_Ignored(copyOk) == FALSE

\* downloadDocument: if err != nil after io.Copy
CopyFailed(copyOk) == ~copyOk

\* variant: the prompt's result is ignored
AbortsScan_Never(continue) == FALSE

\* createScanJob, downloadDocument: if !s.promptUserToDismissError() { return }
AbortsScan(continue) == ~continue

\* variant: a 404 is taken for the document as well
IsDocument_Or404(status) == status = StatusOK \/ status = StatusNotFound

\* downloadDocument: a response that carries the document
IsDocument(status) == status = StatusOK

\* variant: the not-ready status is taken to be 204
IsNotReady_NoContent(status) == status = 204

\* downloadDocument: "Document not ready yet, wait and retry"
IsNotReady(status) == status = StatusNotFound

\* variant: any 5xx status is taken for service unavailable
IsUnavailable_Any5xx(status) == status >= 500

\* downloadDocument: resp.StatusCode == http.StatusServiceUnavailable
IsUnavailable(status) == status = StatusServiceUnavailable

\* variant: Processing is not counted among the normal states
IsErrorState_IdleOnly(state) == state # "Idle"

\* downloadDocument: status.State != "Idle" && status.State != "Processing"
IsErrorState(state) == state # "Idle" /\ state # "Processing"

\* downloadDocument: i = 0 after the operator dismissed the error
IAfterContinue == 0

\* Scan: os.Stat(outputFile) does not report IsNotExist
FileCreated(f) == f.exists

(***************************************************************************)
(* Initial state: Scan has not been called.                                *)
(***************************************************************************)
NoProbe == [ok |-> FALSE, State |-> "none"]

NoProbeResponse == [transport |-> FALSE, status |-> -1, wellFormed |-> FALSE, State |-> ""]

NoResponse == [transport |-> FALSE, status |-> 0, location |-> <<>>, body |-> ""]

InitHist ==
  [ lastPost |-> NoResponse,   \* the answer to the latest POST
    n503C |-> 0,               \* 503 answers to POSTs
    postsSinceGateC |-> 0,     \* POSTs issued since the operator continued
    lastGet |-> 0,             \* status of the latest GET, 0 for none, -1 for no response
    only404 |-> TRUE,          \* every GET before the latest one was answered 404
    got200 |-> FALSE,          \* a GET was answered 200
    served |-> <<>>,           \* body of that answer
    getsSinceGateD |-> 0,      \* GETs issued since the operator continued
    probedD |-> FALSE,         \* the latest GET turn issued a status probe
    lastProbe |-> NoProbe,     \* result of the probe of the turn in progress, if it issued one
    lastProbeResp |-> NoProbeResponse, \* the device's answer to that probe
    prevProbe |-> NoProbe,     \* result of the probe of the turn before, if both turns probed
    postsAtPoll |-> 0,         \* POSTs issued when downloadDocument was entered
    sent |-> {},               \* the payloads the POSTs carried
    lastInput |-> NoInput,     \* what the last prompt read, until the next request
    aborted |-> "",            \* phase in which the prompt returned false (abort)
    atAbort |-> <<>> ]         \* requests, sleeps and file at that moment

\* main has not assigned config
NoConfig == [ScannerURL |-> <<>>, PaperlessURL |-> "", PaperlessToken |-> ""]
\* the process is running
Running == [code |-> -1, msg |-> ""]
\* os.Exit(code), after log.Fatalf(msg) when code is 1
Exit(code, msg) == [code |-> code, msg |-> msg]

\* loadConfig is not called on its own
NoCall ==
  [ requirePaperless |-> FALSE, scannerURL |-> <<>>, paperlessURL |-> "", paperlessToken |-> "",
    env |-> [SCANNER_URL |-> <<>>, PAPERLESS_URL |-> "", PAPERLESS_TOKEN |-> ""] ]
\* loadConfig has not returned
NotLoaded == [ok |-> FALSE, config |-> NoConfig, msg |-> "not called"]

\* Scan is called on its own, main is not running
MainIdle ==
  /\ outputPath = <<>>
  /\ uploadToPaperless = FALSE
  /\ config = NoConfig
  /\ outputFormat = <<>>
  /\ scanner = "none"
  /\ scanFile = NoPath
  /\ saved = Absent
  /\ exit = Running
  /\ uploads = <<>>
  /\ loaded = NotLoaded

ScanIdle ==
  /\ pc = "idle"
  /\ format = <<>>
  /\ scanSettings = NoSettings
  /\ jobURL = <<>>
  /\ attempt = 0
  /\ promptedC = FALSE
  /\ i = 0
  /\ promptedD = FALSE
  /\ file = Absent
  /\ result = NoPath
  /\ err = NoErr
  /\ net = [posts |-> 0, gets |-> 0, probesC |-> 0]
  /\ prompts = [create |-> 0, download |-> 0]
  /\ sleeps = [backoff |-> 0, grace |-> 0, poll |-> 0]
  /\ hist = InitHist

Init ==
  /\ ScanIdle
  /\ mpc = "none"
  /\ MainIdle
  /\ call = NoCall

\* Scan returns "", err
Fail(e) ==
  /\ pc' = "failed"
  /\ result' = NoPath
  /\ err' = e

(***************************************************************************)
(* Scan, up to the call of createScanJob.                                  *)
(***************************************************************************)
ScanBegin(f, mkdirOk) ==
  /\ pc = "idle"
  /\   LET fmt == DefaultFormat(f)
           mimeType == getESCLMimeType(fmt)
       IN /\ format' = fmt
          /\ IF ~mimeType.ok
             THEN /\ Fail(Err("", UnsupportedMsg))
                  /\ UNCHANGED scanSettings
             ELSE IF ~mkdirOk
             THEN /\ Fail(Err("", "failed to create temp directory"))
                  /\ UNCHANGED scanSettings
             ELSE /\ scanSettings' = ScanSettings(mimeType.mime)
                  /\ pc' = "submit"
                  /\ UNCHANGED <<result, err>>
  /\ attempt' = 0
  /\ promptedC' = FALSE
  /\ UNCHANGED <<jobURL, i, promptedD, file, net, prompts, sleeps, hist>>

\* Scan called on its own with any format
ScanStart ==
  /\ mpc = "none"
  /\ \E f \in Formats, mkdirOk \in BOOLEAN : ScanBegin(f, mkdirOk)
  /\ UNCHANGED mainVars

(***************************************************************************)
(* createScanJob: one turn of the loop, up to the prompt.                  *)
(***************************************************************************)
PostResponses ==
  { NoResponse }
  \cup { [transport |-> TRUE, status |-> StatusCreated, location |-> l, body |-> ""] :
           l \in Locations }
  \cup { [transport |-> TRUE, status |-> st, location |-> <<>>, body |-> b] :
           st \in PostStatuses \ {StatusCreated}, b \in ErrorBodies }

\* the loop's attempt++ and its attempt < maxRetries test
CreateLoopNext(att) ==
  IF att + 1 < maxRetriesCreate
  THEN /\ attempt' = att + 1
       /\ pc' = "submit"
       /\ UNCHANGED <<result, err>>
  ELSE /\ attempt' = att + 1
       /\ Fail(Err(WrapCreate, ExhaustedMsg))

CreatePost ==
  /\ pc = "submit"
  /\ sleeps' = IF BackoffBefore(attempt) THEN [sleeps EXCEPT !.backoff = @ + 1] ELSE sleeps
  /\ \E resp \in PostResponses, probe \in ProbeResponses :
       LET h1 == [hist EXCEPT !.lastPost = resp,
                              !.lastInput = NoInput,
                              !.sent = @ \cup {RequestBody(scanSettings, net.posts)},
                              !.n503C = IF resp.transport /\ resp.status = StatusServiceUnavailable
                                        THEN @ + 1 ELSE @,
                              !.postsSinceGateC = IF promptedC THEN @ + 1 ELSE @]
       IN IF TransportFailed(resp)
          THEN /\ Fail(Err(WrapCreate, TransportMsg))
               /\ net' = [net EXCEPT !.posts = @ + 1]
               /\ hist' = h1
               /\ UNCHANGED <<attempt, jobURL, prompts>>
          ELSE IF resp.status = StatusCreated
          THEN /\ net' = [net EXCEPT !.posts = @ + 1]
               /\ hist' = h1
               /\ UNCHANGED <<attempt, prompts>>
               /\ IF HasLocation(resp.location)
                  THEN /\ jobURL' = resp.location
                       /\ pc' = "grace"
                       /\ UNCHANGED <<result, err>>
                  ELSE /\ Fail(Err(WrapCreate, "no Location header in response"))
                       /\ UNCHANGED jobURL
          ELSE IF Needs503PromptCreate(resp.status, promptedC)
          THEN /\ net' = [net EXCEPT !.posts = @ + 1, !.probesC = @ + 1]
               /\ hist' = [h1 EXCEPT !.lastProbe = getScannerStatus(probe),
                                      !.lastProbeResp = probe]
               /\ UNCHANGED jobURL
               /\ IF PromptsAfterProbe(getScannerStatus(probe))
                  THEN /\ prompts' = [prompts EXCEPT !.create = @ + 1]
                       /\ pc' = "gateC"
                       /\ UNCHANGED <<attempt, result, err>>
                  ELSE /\ CreateLoopNext(attempt)
                       /\ UNCHANGED prompts
          ELSE /\ net' = [net EXCEPT !.posts = @ + 1]
               /\ hist' = h1
               /\ UNCHANGED <<jobURL, prompts>>
               /\ IF IsTerminalCreate(attempt, resp.status)
                  THEN /\ Fail(ErrStatus(WrapCreate, RejectedMsg, resp.status, resp.body))
                       /\ UNCHANGED attempt
                  ELSE CreateLoopNext(attempt)
  /\ UNCHANGED <<format, scanSettings, promptedC, i, promptedD, file>>
  /\ UNCHANGED mainVars

(***************************************************************************)
(* createScanJob: the operator answers the prompt.                         *)
(***************************************************************************)
CreateGate ==
  /\ pc = "gateC"
  /\ \E input \in Inputs :
       LET continue == promptUserToDismissError(input)
           h0 == [hist EXCEPT !.lastInput = input]
           h1 == IF continue THEN h0
                 ELSE [h0 EXCEPT !.aborted = "create", !.atAbort = <<net, sleeps, file>>]
       IN IF AbortsScan(continue)
          THEN /\ Fail(Err(WrapCreate, AbortedMsg))
               /\ hist' = h1
               /\ UNCHANGED <<attempt, promptedC>>
          ELSE /\ promptedC' = TRUE
               /\ CreateLoopNext(AttemptAfterContinue)
               /\ hist' = [h1 EXCEPT !.lastProbe = NoProbe,
                                      !.lastProbeResp = NoProbeResponse]
  /\ UNCHANGED <<format, scanSettings, jobURL, i, promptedD, file, net, prompts, sleeps>>
  /\ UNCHANGED mainVars

(***************************************************************************)
(* Scan: the grace sleep, then downloadDocument up to its loop.            *)
(***************************************************************************)
AwaitStart ==
  /\ pc = "grace"
  /\ sleeps' = [sleeps EXCEPT !.grace = @ + 1]
  /\ i' = 0
  /\ promptedD' = FALSE
  /\ IF ValidJobURL(jobURL)
     THEN /\ pc' = "poll"
          /\ UNCHANGED <<result, err>>
     ELSE Fail(Err(WrapDownload, "invalid job URL"))
  /\ hist' = [hist EXCEPT !.postsAtPoll = net.posts]
  /\ UNCHANGED <<format, scanSettings, jobURL, attempt, promptedC, file, net, prompts>>
  /\ UNCHANGED mainVars

(***************************************************************************)
(* downloadDocument: one turn of the loop, up to the prompt.               *)
(***************************************************************************)
GetResponses ==
  { [transport |-> FALSE, status |-> 0, body |-> <<>>] }
  \cup { [transport |-> TRUE, status |-> StatusOK, body |-> b] : b \in Bodies }
  \cup { [transport |-> TRUE, status |-> st, body |-> <<>>] : st \in GetStatuses \ {StatusOK} }

\* variant: the loop test is i <= maxRetries
DownloadLoopNext_Inclusive(k) ==
  IF k + 1 <= maxRetriesDownload
  THEN /\ i' = k + 1
       /\ pc' = "poll"
       /\ UNCHANGED <<result, err>>
  ELSE /\ i' = k + 1
       /\ Fail(Err(WrapDownload, NotReadyMsg))

\* variant: a probe that failed is taken for an error on the device
ProbeRequiresPrompt_OnFailure(status) ==
  ~status.ok \/ IsErrorState(status.State)

\* downloadDocument: the probe succeeded and the state is not a normal one
ProbeRequiresPrompt(status) ==
  status.ok /\ IsErrorState(status.State)

\* variant: an exhausted retrieval submits the scan job again
DownloadLoopNext_Resubmit(k) ==
  /\ i' = k + 1
  /\ pc' = IF k + 1 < maxRetriesDownload THEN "poll" ELSE "submit"
  /\ UNCHANGED <<result, err>>

\* the loop's i++ and its i < maxRetries test
DownloadLoopNext(k) ==
  IF k + 1 < maxRetriesDownload
  THEN /\ i' = k + 1
       /\ pc' = "poll"
       /\ UNCHANGED <<result, err>>
  ELSE /\ i' = k + 1
       /\ Fail(Err(WrapDownload, NotReadyMsg))

\* time.Sleep(1 * time.Second); continue
SleepAndRetry ==
  /\ sleeps' = [sleeps EXCEPT !.poll = @ + 1]
  /\ DownloadLoopNext(i)
  /\ UNCHANGED <<file, prompts>>

DownloadGet ==
  /\ pc = "poll"
  /\ \E resp \in GetResponses :
       LET n1 == [net EXCEPT !.gets = @ + 1]
           h1 == [hist EXCEPT !.lastGet = IF resp.transport THEN resp.status ELSE -1,
                              !.only404 = @ /\ hist.lastGet \in {0, StatusNotFound},
                              !.got200 = resp.transport /\ resp.status = StatusOK,
                              !.served = resp.body,
                              !.getsSinceGateD = IF promptedD THEN @ + 1 ELSE @,
                              !.probedD = FALSE,
                              !.lastInput = NoInput,
                              !.lastProbe = NoProbe,
                              !.lastProbeResp = NoProbeResponse,
                              !.prevProbe = NoProbe]
       IN IF TransportFailed(resp)
          THEN /\ Fail(Err(WrapDownload, TransportMsg))
               /\ net' = n1
               /\ hist' = h1
               /\ UNCHANGED <<i, file, prompts, sleeps>>
          ELSE IF IsDocument(resp.status)
          THEN /\ net' = n1
               /\ hist' = h1
               /\ UNCHANGED <<i, prompts, sleeps>>
               /\ \E createOk \in BOOLEAN, copied \in 0..Len(resp.body), copyOk \in BOOLEAN :
                    /\ createOk \/ (copied = 0 /\ copyOk)
                    /\ copyOk => copied = Len(resp.body)
                    /\ IF ~createOk
                       THEN /\ Fail(Err(WrapDownload, "create failed"))
                            /\ UNCHANGED file
                       ELSE /\ file' = FileOf(SubSeq(resp.body, 1, copied))
                            /\ IF CopyFailed(copyOk)
                               THEN Fail(Err(WrapDownload, CopyFailedMsg))
                               ELSE /\ pc' = "verify"
                                    /\ UNCHANGED <<result, err>>
          ELSE IF IsNotReady(resp.status)
          THEN /\ net' = n1
               /\ hist' = h1
               /\ SleepAndRetry
          ELSE IF IsUnavailable(resp.status)
          THEN IF promptedD
               THEN /\ net' = n1
                    /\ hist' = h1
                    /\ SleepAndRetry
               ELSE \E probe \in ProbeResponses :
                      LET status == getScannerStatus(probe)
                          h2 == [h1 EXCEPT !.probedD = TRUE,
                                           !.lastProbe = status,
                                           !.lastProbeResp = probe,
                                           !.prevProbe = hist.lastProbe]
                      IN /\ net' = n1
                         /\ IF ProbeRequiresPrompt(status)
                            THEN /\ hist' = h2
                                 /\ prompts' = [prompts EXCEPT !.download = @ + 1]
                                 /\ pc' = "gateD"
                                 /\ UNCHANGED <<i, file, sleeps, result, err>>
                            ELSE /\ hist' = h2
                                 /\ SleepAndRetry
          ELSE /\ Fail(ErrStatus(WrapDownload, UnexpectedMsg, resp.status, ""))
               /\ net' = n1
               /\ hist' = h1
               /\ UNCHANGED <<i, file, prompts, sleeps>>
  /\ UNCHANGED <<format, scanSettings, jobURL, attempt, promptedC, promptedD>>
  /\ UNCHANGED mainVars

(***************************************************************************)
(* downloadDocument: the operator answers the prompt.                      *)
(***************************************************************************)
DownloadGate ==
  /\ pc = "gateD"
  /\ \E input \in Inputs :
       LET continue == promptUserToDismissError(input)
           h0 == [hist EXCEPT !.lastInput = input]
           h1 == IF continue THEN h0
                 ELSE [h0 EXCEPT !.aborted = "download", !.atAbort = <<net, sleeps, file>>]
       IN IF AbortsScan(continue)
          THEN /\ Fail(Err(WrapDownload, AbortedMsg))
               /\ hist' = h1
               /\ UNCHANGED <<i, promptedD>>
          ELSE /\ promptedD' = TRUE
               /\ DownloadLoopNext(IAfterContinue)
               /\ hist' = [h1 EXCEPT !.lastProbe = NoProbe,
                                      !.lastProbeResp = NoProbeResponse,
                                      !.prevProbe = NoProbe]
  /\ UNCHANGED <<format, scanSettings, jobURL, attempt, promptedC, file, net, prompts, sleeps>>
  /\ UNCHANGED mainVars

(***************************************************************************)
(* Scan: "Verify the file was created", then return outputFile.            *)
(***************************************************************************)
VerifyOutput ==
  /\ pc = "verify"
  /\ IF FileCreated(file)
     THEN /\ pc' = "done"
          /\ result' = OutputFile(format)
          /\ UNCHANGED err
     ELSE Fail(Err("", "scan file was not created"))
  /\ UNCHANGED <<format, scanSettings, jobURL, attempt, promptedC, i, promptedD, file, net, prompts,
                 sleeps, hist>>
  /\ UNCHANGED mainVars

Next ==
  \/ ScanStart
  \/ CreatePost
  \/ CreateGate
  \/ AwaitStart
  \/ DownloadGet
  \/ DownloadGate
  \/ VerifyOutput

Spec == Init /\ [][Next]_vars

\* every network call returns and the operator answers each prompt: a step
\* of Scan that can be taken is taken
LiveSpec == Init /\ [][Next]_vars /\ WF_vars(Next)

(***************************************************************************)
(* main: the command line, the configuration and the scanner selection.    *)
(***************************************************************************)
HttpPrefix == <<"h", "t", "t", "p", ":", "/", "/">>
HttpsPrefix == <<"h", "t", "t", "p", "s", ":", "/", "/">>

\* scanner URLs: two eSCL devices, SANE device names of 8, 7 and 3 characters
UrlHttp == HttpPrefix \o <<"h">>
UrlHttps == HttpsPrefix \o <<"h">>
UrlPixma == <<"p", "i", "x", "m", "a", ":", "M", "X">>
UrlAirscan == <<"a", "i", "r", "s", "c", "a", "n">>
UrlNet == <<"n", "e", "t">>

\* values of -output: none, with a supported and an unsupported extension,
\* without an extension, with a dot in the directory only
OutputPaths ==
  { <<>>,
    <<"s", ".", "p", "d", "f">>,
    <<"s", ".", "t", "x", "t">>,
    <<"s">>,
    <<"d", ".", "d", "/", "s">> }

\* the command lines main is started with
CommandLines ==
  [ output : OutputPaths,
    upload : BOOLEAN,
    verbose : BOOLEAN,
    positional : BOOLEAN,
    scanner_url : { <<>>, UrlHttp, UrlPixma },
    paperless_url : { "", "http://paperless" },
    paperless_token : { "", "token" } ]

\* the environment after godotenv.Load
Environments ==
  [ SCANNER_URL : { <<>>, UrlHttps, UrlAirscan, UrlNet },
    PAPERLESS_URL : { "", "http://paperless" },
    PAPERLESS_TOKEN : { "", "token" } ]

\* flag.NFlag: the number of flags that were set
NFlag(a) ==
  (IF a.output # <<>> THEN 1 ELSE 0) + (IF a.upload THEN 1 ELSE 0)
  + (IF a.verbose THEN 1 ELSE 0) + (IF a.scanner_url # <<>> THEN 1 ELSE 0)
  + (IF a.paperless_url # "" THEN 1 ELSE 0) + (IF a.paperless_token # "" THEN 1 ELSE 0)

\* variant: the Paperless values are required whether or not upload is asked
loadConfig_AlwaysRequired(requirePaperless, scannerURL, paperlessURL, paperlessToken, env) ==
  LET c == [ ScannerURL |-> IF scannerURL = <<>> THEN env.SCANNER_URL ELSE scannerURL,
             PaperlessURL |-> IF paperlessURL = "" THEN env.PAPERLESS_URL ELSE paperlessURL,
             PaperlessToken |-> IF paperlessToken = "" THEN env.PAPERLESS_TOKEN
                                ELSE paperlessToken ]
  IN IF c.ScannerURL = <<>>
     THEN [ok |-> FALSE, config |-> NoConfig, msg |-> "SCANNER_URL is required"]
     ELSE IF c.PaperlessURL = ""
     THEN [ok |-> FALSE, config |-> NoConfig, msg |-> "PAPERLESS_URL is required"]
     ELSE IF c.PaperlessToken = ""
     THEN [ok |-> FALSE, config |-> NoConfig, msg |-> "PAPERLESS_TOKEN is required"]
     ELSE [ok |-> TRUE, config |-> c, msg |-> ""]

\* loadConfig: the flag, else the environment variable; then the validation
loadConfig(requirePaperless, scannerURL, paperlessURL, paperlessToken, env) ==
  LET c == [ ScannerURL |-> IF scannerURL = <<>> THEN env.SCANNER_URL ELSE scannerURL,
             PaperlessURL |-> IF paperlessURL = "" THEN env.PAPERLESS_URL ELSE paperlessURL,
             PaperlessToken |-> IF paperlessToken = "" THEN env.PAPERLESS_TOKEN
                                ELSE paperlessToken ]
  IN IF c.ScannerURL = <<>>
     THEN [ok |-> FALSE, config |-> NoConfig, msg |-> "SCANNER_URL is required"]
     ELSE IF requirePaperless /\ c.PaperlessURL = ""
     THEN [ok |-> FALSE, config |-> NoConfig, msg |-> "PAPERLESS_URL is required"]
     ELSE IF requirePaperless /\ c.PaperlessToken = ""
     THEN [ok |-> FALSE, config |-> NoConfig, msg |-> "PAPERLESS_TOKEN is required"]
     ELSE [ok |-> TRUE, config |-> c, msg |-> ""]

\* filepath.Ext: from the last dot of the last path element, "" without one
Ext(path) ==
  LET dots == { k \in 1..Len(path) :
                  /\ path[k] = "."
                  /\ \A j \in k..Len(path) : path[j] # "/" }
  IN IF dots = {} THEN <<>>
     ELSE SubSeq(path, CHOOSE k \in dots : \A j \in dots : j <= k, Len(path))

\* main: the test that selects the scanner; ScannerURL[:8] of a URL of seven
\* characters is out of range
SelectScanner(url) ==
  IF Len(url) >= 7
  THEN IF SubSeq(url, 1, 7) = HttpPrefix THEN "escl"
       ELSE IF Len(url) < 8 THEN "panic"
       ELSE IF SubSeq(url, 1, 8) = HttpsPrefix THEN "escl"
       ELSE "sane"
  ELSE "sane"

\* getScanImageFormat: the scanimage format of an extension
getScanImageFormat(ext) ==
  LET e == ToLower(ext)
  IN IF e = ExtPdf THEN [ok |-> TRUE, name |-> "pdf"]
     ELSE IF e = ExtPng THEN [ok |-> TRUE, name |-> "png"]
     ELSE IF e = ExtJpg \/ e = ExtJpeg THEN [ok |-> TRUE, name |-> "jpeg"]
     ELSE [ok |-> FALSE, name |-> ""]

\* answers of the Paperless server to the upload
UploadResponses ==
  { [transport |-> FALSE, status |-> 0],
    [transport |-> TRUE, status |-> StatusOK],
    [transport |-> TRUE, status |-> StatusCreated],
    [transport |-> TRUE, status |-> 400],
    [transport |-> TRUE, status |-> 500] }

\* UploadDocument: the statuses that are not an error
UploadAccepted(resp) == resp.transport /\ resp.status \in {StatusOK, StatusCreated}

\* the file a path of main names
FileAt(path) ==
  IF path = NoPath THEN Absent
  ELSE IF path = outputPath THEN saved
  ELSE IF path = OutputFile(format) THEN file
  ELSE Absent

MainInit ==
  /\ ScanIdle
  /\ mpc = "start"
  /\ MainIdle
  /\ call = NoCall

\* the process ends
Die(code, msg) ==
  /\ mpc' = "exit"
  /\ exit' = Exit(code, msg)

scanVars == <<pc, format, scanSettings, jobURL, attempt, promptedC, i, promptedD, file, result,
              err, net, prompts, sleeps, hist>>

\* main, from flag.Parse to outputFormat
MainStart ==
  /\ mpc = "start"
  /\ \E a \in CommandLines, env \in Environments :
       LET cfg == loadConfig(a.upload, a.scanner_url, a.paperless_url,
                             a.paperless_token, env)
           fmt == IF a.output # <<>> THEN Ext(a.output) ELSE ExtPdf
       IN /\ outputPath' = a.output
          /\ uploadToPaperless' = a.upload
          /\ IF NFlag(a) = 0 /\ ~a.positional
             THEN /\ Die(0, "usage")
                  /\ UNCHANGED <<config, outputFormat>>
             ELSE IF ~a.upload /\ a.output = <<>>
             THEN /\ Die(1, "Must specify either --upload-to-paperless or -output")
                  /\ UNCHANGED <<config, outputFormat>>
             ELSE IF ~cfg.ok
             THEN /\ Die(1, cfg.msg)
                  /\ UNCHANGED <<config, outputFormat>>
             ELSE IF fmt = <<>>
             THEN /\ Die(1, "Output path must have a file extension")
                  /\ config' = cfg.config
                  /\ UNCHANGED outputFormat
             ELSE /\ mpc' = "select"
                  /\ config' = cfg.config
                  /\ outputFormat' = fmt
                  /\ UNCHANGED exit
  /\ UNCHANGED <<scanner, scanFile, saved, uploads>>
  /\ UNCHANGED scanVars
  /\ UNCHANGED <<call, loaded>>

\* main: the URL is an HTTP or HTTPS URL, esclScanner.Scan(outputFormat) is called
MainEsclScan ==
  /\ mpc = "select"
  /\ SelectScanner(config.ScannerURL) = "escl"
  /\ \E mkdirOk \in BOOLEAN : ScanBegin(outputFormat, mkdirOk)
  /\ mpc' = "scan"
  /\ scanner' = "escl"
  /\ UNCHANGED <<outputPath, uploadToPaperless, config, outputFormat, scanFile, saved, exit,
                 uploads>>
  /\ UNCHANGED <<call, loaded>>

\* main: any other URL, Scanner.Scan(outputFormat) runs scanimage and returns
MainSaneScan ==
  /\ mpc = "select"
  /\ SelectScanner(config.ScannerURL) = "sane"
  /\ pc = "idle"
  /\ \E mkdirOk \in BOOLEAN, cmdOk \in BOOLEAN, written \in {Absent} \cup {FileOf(b) : b \in Bodies} :
       LET fmt == DefaultFormat(outputFormat)
       IN /\ format' = fmt
          /\ IF ~getScanImageFormat(fmt).ok
             THEN /\ Fail(Err("", UnsupportedMsg))
                  /\ UNCHANGED file
             ELSE IF ~mkdirOk
             THEN /\ Fail(Err("", "failed to create temp directory"))
                  /\ UNCHANGED file
             ELSE IF ~cmdOk
             THEN /\ Fail(Err("", "scanimage command failed"))
                  /\ file' = written
             ELSE IF ~written.exists
             THEN /\ Fail(Err("", "scan file was not created"))
                  /\ file' = written
             ELSE /\ pc' = "done"
                  /\ result' = OutputFile(fmt)
                  /\ err' = NoErr
                  /\ file' = written
  /\ mpc' = "scan"
  /\ UNCHANGED <<scanSettings, jobURL, attempt, promptedC, i, promptedD, net, prompts, sleeps,
                 hist>>
  /\ scanner' = "sane"
  /\ UNCHANGED <<outputPath, uploadToPaperless, config, outputFormat, scanFile, saved, exit,
                 uploads>>
  /\ UNCHANGED <<call, loaded>>

\* main: the slice expression of the selection is out of range, the process
\* ends with a run-time panic
MainPanic ==
  /\ mpc = "select"
  /\ SelectScanner(config.ScannerURL) = "panic"
  /\ Die(2, "slice bounds out of range")
  /\ UNCHANGED <<outputPath, uploadToPaperless, config, outputFormat, scanner, scanFile, saved,
                 uploads>>
  /\ UNCHANGED scanVars
  /\ UNCHANGED <<call, loaded>>

\* variant: scanFile keeps the temporary path after the move
ScanFileAfterSave_Stale(out, tmp) == tmp

\* main: "Update scanFile to the new path for potential upload"
ScanFileAfterSave(out, tmp) == out

\* main: the scan has returned; "Save locally if -output specified"
MainSave ==
  /\ mpc = "scan"
  /\ pc \in {"done", "failed"}
  /\ IF err # NoErr
     THEN /\ Die(1, "Scan failed")
          /\ UNCHANGED <<scanFile, saved, file>>
     ELSE IF outputPath # <<>>
     THEN \E renameOk \in BOOLEAN :
            IF renameOk
            THEN /\ saved' = file
                 /\ file' = Absent
                 /\ scanFile' = ScanFileAfterSave(outputPath, result)
                 /\ mpc' = "upload"
                 /\ UNCHANGED exit
            ELSE /\ Die(1, "Failed to save file")
                 /\ scanFile' = result
                 /\ UNCHANGED <<saved, file>>
     ELSE /\ scanFile' = result
          /\ mpc' = "upload"
          /\ UNCHANGED <<saved, file, exit>>
  /\ UNCHANGED <<outputPath, uploadToPaperless, config, outputFormat, scanner, uploads>>
  /\ UNCHANGED <<pc, format, scanSettings, jobURL, attempt, promptedC, i, promptedD, result, err,
                 net, prompts, sleeps, hist>>
  /\ UNCHANGED <<call, loaded>>

\* main: "Upload to Paperless if --upload-to-paperless specified"
MainUpload ==
  /\ mpc = "upload"
  /\ IF ~uploadToPaperless
     THEN /\ mpc' = "cleanup"
          /\ UNCHANGED <<exit, uploads>>
     ELSE \E resp \in UploadResponses :
            LET document == FileAt(scanFile)
            IN IF ~document.exists
               THEN /\ Die(1, "Upload to Paperless failed")
                    /\ UNCHANGED uploads
               ELSE /\ uploads' = IF resp.transport
                                  THEN Append(uploads, [path |-> scanFile,
                                                        data |-> document.data,
                                                        status |-> resp.status])
                                  ELSE uploads
                    /\ IF UploadAccepted(resp)
                       THEN /\ mpc' = "cleanup"
                            /\ UNCHANGED exit
                       ELSE Die(1, "Upload to Paperless failed")
  /\ UNCHANGED <<outputPath, uploadToPaperless, config, outputFormat, scanner, scanFile, saved>>
  /\ UNCHANGED scanVars
  /\ UNCHANGED <<call, loaded>>

\* main: "Cleanup temporary file if we didn't save it locally", then return
MainCleanup ==
  /\ mpc = "cleanup"
  /\ IF outputPath = <<>> /\ scanFile # NoPath
     THEN file' = Absent
     ELSE UNCHANGED file
  /\ Die(0, "")
  /\ UNCHANGED <<outputPath, uploadToPaperless, config, outputFormat, scanner, scanFile, saved,
                 uploads>>
  /\ UNCHANGED <<pc, format, scanSettings, jobURL, attempt, promptedC, i, promptedD, result, err,
                 net, prompts, sleeps, hist>>
  /\ UNCHANGED <<call, loaded>>

MainNext ==
  \/ MainStart
  \/ MainEsclScan
  \/ MainSaneScan
  \/ MainPanic
  \/ CreatePost
  \/ CreateGate
  \/ AwaitStart
  \/ DownloadGet
  \/ DownloadGate
  \/ VerifyOutput
  \/ MainSave
  \/ MainUpload
  \/ MainCleanup

MainSpec == MainInit /\ [][MainNext]_vars

(***************************************************************************)
(* loadConfig called on its own, with flags and environment that differ.   *)
(***************************************************************************)
ConfigCalls ==
  [ requirePaperless : BOOLEAN,
    scannerURL : { <<>>, UrlHttp },
    paperlessURL : { "", "http://flag" },
    paperlessToken : { "", "flag-token" },
    env : [ SCANNER_URL : { <<>>, UrlHttps },
            PAPERLESS_URL : { "", "http://env" },
            PAPERLESS_TOKEN : { "", "env-token" } ] ]

ConfigInit ==
  /\ ScanIdle
  /\ mpc = "config"
  /\ MainIdle
  /\ call \in ConfigCalls

\* loadConfig runs and returns
ConfigLoad ==
  /\ mpc = "config"
  /\ loaded' = loadConfig(call.requirePaperless, call.scannerURL, call.paperlessURL,
                          call.paperlessToken, call.env)
  /\ mpc' = "configured"
  /\ UNCHANGED <<outputPath, uploadToPaperless, config, outputFormat, scanner, scanFile, saved,
                 exit, uploads, call>>
  /\ UNCHANGED scanVars

ConfigNext == ConfigLoad

ConfigSpec == ConfigInit /\ [][ConfigNext]_vars

(***************************************************************************)
(* Properties.                                                             *)
(***************************************************************************)
\* C1 (as stated): Scan returns a path only if retrieval received a 200 and
\* the file at that path exists and is non-empty
C1_NonEmptyArtifact ==
  result # NoPath => (hist.got200 /\ file.exists /\ file.data # <<>>)

\* C1 (amended): Scan returns a path only if retrieval received a 200 and the
\* file at that path exists; the file holds the served body, empty or not,
\* and no error is returned with the path
C1_ArtifactOnlyAfter200 ==
  result # NoPath =>
    /\ pc = "done"
    /\ result = OutputFile(format)
    /\ err = NoErr
    /\ hist.got200
    /\ file.exists
    /\ file.data = hist.served

\* a 200 with an empty body ended in a returned path
C1_Witness ==
  pc = "done" /\ result # NoPath /\ hist.got200 /\ hist.served = <<>> /\ file = FileOf(<<>>)

\* C2: promptUserToDismissError is invoked at most once in createScanJob and
\* at most once in downloadDocument, hence at most twice in one Scan
C2_GateAtMostOncePerPhase ==
  /\ prompts.create <= 1
  /\ prompts.download <= 1
  /\ prompts.create + prompts.download <= 2

\* both gates were used and each phase saw a further 503 afterwards
C2_Witness ==
  /\ prompts.create = 1
  /\ prompts.download = 1
  /\ hist.n503C >= 2
  /\ promptedD
  /\ hist.getsSinceGateD >= 1
  /\ hist.lastGet = StatusServiceUnavailable

\* C3 (as stated): after Continue in downloadDocument the poller makes 30
\* further GETs before it fails with 'document not ready'
C3_ContinueRestoresFullBudget ==
  (pc = "failed" /\ err.msg = NotReadyMsg /\ promptedD) =>
    hist.getsSinceGateD = maxRetriesDownload

\* C4 (as stated): a status other than 201 and 503 fails createScanJob only
\* once 5 attempts have been made
C4_OtherStatusRetried ==
  (pc = "failed" /\ err.msg = RejectedMsg /\ err.status # StatusServiceUnavailable) =>
    net.posts >= maxRetriesCreate

\* C4 (amended): a status other than 201 and 503 ends createScanJob on its
\* first occurrence: the call fails at once with that status and body, no
\* further POST and no retrieval follow
C4_OtherStatusTerminal ==
  (hist.lastPost.transport /\ hist.lastPost.status \notin {StatusCreated, StatusServiceUnavailable}) =>
    /\ pc = "failed"
    /\ result = NoPath
    /\ err = ErrStatus(WrapCreate, RejectedMsg, hist.lastPost.status, hist.lastPost.body)
    /\ net.gets = 0
    /\ sleeps.grace = 0

\* the very first POST was answered 400 and the call failed
C4_Witness ==
  /\ net.posts = 1
  /\ hist.lastPost.status = 400
  /\ pc = "failed"
  /\ err.status = 400
  /\ sleeps.backoff = 0

\* C5: a 503 after the gate was used never prompts again; it is retried after
\* a 2-second sleep, and the 5th attempt after the gate returning 503 fails
\* with that status and body
C5_Repeated503AfterGate ==
  /\ (promptedC /\ hist.postsSinceGateC >= 1) =>
       sleeps.backoff = hist.postsSinceGateC - 1
  /\ (promptedC /\ hist.postsSinceGateC >= 1 /\ hist.lastPost.transport
        /\ hist.lastPost.status = StatusServiceUnavailable) =>
       /\ prompts.create = 1
       /\ net.probesC = 1
       /\ IF hist.postsSinceGateC = 5
          THEN /\ pc = "failed"
               /\ err = ErrStatus(WrapCreate, RejectedMsg, StatusServiceUnavailable,
                                  hist.lastPost.body)
          ELSE /\ pc = "submit"
               /\ err = NoErr

\* the 5th POST after the gate was answered 503 and the call failed
C5_Witness ==
  /\ promptedC
  /\ hist.postsSinceGateC = 5
  /\ hist.n503C = 6
  /\ pc = "failed"
  /\ err.status = StatusServiceUnavailable
  /\ err.body = "busy"
  /\ sleeps.backoff = 4

\* C6: after Continue in createScanJob the counter restarts from zero, the
\* next POST is issued without a backoff sleep, and exactly 5 further POSTs
\* are available
C6_ContinueRestartsCounter ==
  /\ (promptedC /\ pc = "submit") =>
       (attempt = hist.postsSinceGateC /\ attempt < 5)
  /\ (promptedC /\ hist.postsSinceGateC <= 1) => sleeps.backoff = 0
  /\ hist.postsSinceGateC <= 5
  /\ (pc = "failed" /\ promptedC /\ err.msg = RejectedMsg
        /\ err.status = StatusServiceUnavailable) => hist.postsSinceGateC = 5

\* all 5 POSTs after the gate were issued
C6_Witness ==
  /\ promptedC
  /\ prompts.create = 1
  /\ hist.postsSinceGateC = 5
  /\ net.posts = 6

\* C7: n consecutive 503s (1 <= n <= 5) then a 201 with a Location, the
\* operator continuing: createScanJob returns that location and the gate was
\* invoked exactly once; fewer than six 503s never exhaust the submission
C7_SucceedsThrough503s ==
  /\ (/\ hist.lastPost.transport
      /\ hist.lastPost.status = StatusCreated
      /\ hist.lastPost.location # <<>>
      /\ hist.n503C >= 1
      /\ net.posts = hist.n503C + 1) =>
       /\ hist.n503C <= 5
       /\ jobURL = hist.lastPost.location
       /\ pc \notin {"idle", "submit", "gateC"}
       /\ err.wrap # WrapCreate
       /\ prompts.create = 1
  /\ (pc = "failed" /\ err.msg = RejectedMsg /\ err.status = StatusServiceUnavailable) =>
       hist.n503C = 6

\* five 503s, then a 201 whose location createScanJob returned
C7_Witness ==
  /\ hist.n503C = 5
  /\ net.posts = 6
  /\ hist.lastPost.status = StatusCreated
  /\ pc = "grace"
  /\ jobURL = <<"eSCL", "ScanJobs", "7">>
  /\ prompts.create = 1

\* C8: when the prompt returns abort, the phase fails with 'scan aborted by
\* user' at once: no POST, GET, probe or sleep follows, no output file is
\* created and Scan returns an error
C8_AbortEndsScan ==
  hist.aborted # "" =>
    /\ pc = "failed"
    /\ result = NoPath
    /\ err = Err(IF hist.aborted = "create" THEN WrapCreate ELSE WrapDownload, AbortedMsg)
    /\ <<net, sleeps, file>> = hist.atAbort
    /\ ~file.exists

\* the operator continued at the first gate and aborted at the second
C8_Witness ==
  /\ hist.aborted = "download"
  /\ prompts.create = 1
  /\ prompts.download = 1
  /\ pc = "failed"

\* C9: a 201 without a Location header fails createScanJob without a retry,
\* and no retrieval request is issued
C9_MissingLocationFails ==
  (hist.lastPost.transport /\ hist.lastPost.status = StatusCreated
     /\ hist.lastPost.location = <<>>) =>
    /\ pc = "failed"
    /\ result = NoPath
    /\ err = Err(WrapCreate, "no Location header in response")
    /\ net.gets = 0
    /\ sleeps.grace = 0
    /\ ~file.exists

\* a 201 without a Location header was received, here after the gate
C9_Witness ==
  /\ hist.lastPost.status = StatusCreated
  /\ hist.lastPost.location = <<>>
  /\ promptedC
  /\ pc = "failed"

\* C10: k consecutive 404s (0 <= k <= 29) then a 200 yield a file equal to
\* the served body; a 404 invokes neither the gate nor a probe and costs one
\* attempt and one 1-second sleep
C10_NotFoundThenDocument ==
  /\ (hist.lastGet = StatusNotFound) =>
       (~hist.probedD /\ pc \in {"poll", "failed"})
  /\ (hist.only404 /\ hist.lastGet = StatusNotFound) =>
       /\ prompts.download = 0
       /\ i = net.gets
       /\ sleeps.poll = net.gets
       /\ IF net.gets < 30 THEN pc = "poll" ELSE pc = "failed" /\ err.msg = NotReadyMsg
  /\ (hist.only404 /\ hist.got200 /\ pc \in {"verify", "done"}) =>
       /\ file = FileOf(hist.served)
       /\ net.gets = i + 1
       /\ i <= 29
       /\ sleeps.poll = i
       /\ prompts.download = 0
       /\ ~hist.probedD

\* 29 answers 404, then a 200 whose body is in the file
C10_Witness ==
  /\ hist.only404
  /\ hist.got200
  /\ net.gets = 30
  /\ sleeps.poll = 29
  /\ pc = "done"
  /\ file = FileOf(<<1>>)

\* C11: in downloadDocument a 503 while the device reports a state other
\* than Idle or Processing invokes the gate, exactly once over the call; a 503
\* while the state is Idle or Processing never invokes it and costs one
\* attempt and one 1-second sleep like a 404
C11_Gate503ByDeviceState ==
  /\ (/\ hist.lastGet = StatusServiceUnavailable
      /\ hist.probedD
      /\ hist.lastProbe.ok
      /\ hist.lastProbe.State \notin {"Idle", "Processing"}) =>
       /\ prompts.download = 1
       /\ pc = "gateD" \/ (pc = "failed" /\ hist.aborted = "download")
       /\ i = net.gets - 1
       /\ sleeps.poll = net.gets - 1
  /\ (/\ hist.lastGet = StatusServiceUnavailable
      /\ hist.probedD
      /\ hist.lastProbe.ok
      /\ hist.lastProbe.State \in {"Idle", "Processing"}) =>
       /\ prompts.download = 0
       /\ i = net.gets
       /\ sleeps.poll = net.gets
       /\ pc = "poll" \/ (pc = "failed" /\ err.msg = NotReadyMsg)
  /\ promptedD =>
       /\ prompts.download = 1
       /\ pc # "gateD"
       /\ hist.getsSinceGateD >= 1 => ~hist.probedD

\* the gate was used once and two further 503s followed
C11_Witness ==
  /\ promptedD
  /\ prompts.download = 1
  /\ hist.lastGet = StatusServiceUnavailable
  /\ hist.getsSinceGateD >= 2
  /\ ~hist.only404

\* C12: when every GET is answered 404, downloadDocument fails with 'scan
\* document not ready after 30 attempts' after exactly 30 GETs, the output
\* file is never created and Scan returns an error and no path
C12_AllNotFoundExhausts ==
  /\ (hist.only404 /\ hist.lastGet = StatusNotFound /\ pc = "failed") =>
       /\ err = Err(WrapDownload, NotReadyMsg)
       /\ net.gets = 30
  /\ (hist.only404 /\ hist.lastGet = StatusNotFound /\ net.gets >= 30) => pc = "failed"
  /\ err.msg = NotReadyMsg =>
       /\ pc = "failed"
       /\ result = NoPath
       /\ ~file.exists

\* 30 GETs, all answered 404
C12_Witness ==
  /\ hist.only404
  /\ hist.lastGet = StatusNotFound
  /\ net.gets = 30
  /\ sleeps.poll = 30
  /\ pc = "failed"
  /\ err.msg = NotReadyMsg

\* C13: in downloadDocument a status other than 200, 404 and 503 is terminal
\* on its first occurrence: no further GET, no probe, no prompt, no file
C13_UnexpectedStatusTerminal ==
  hist.lastGet \notin {-1, 0, StatusOK, StatusNotFound, StatusServiceUnavailable} =>
    /\ pc = "failed"
    /\ result = NoPath
    /\ err = ErrStatus(WrapDownload, UnexpectedMsg, hist.lastGet, "")
    /\ ~hist.probedD
    /\ hist.lastProbe = NoProbe
    /\ ~file.exists

\* a 500 after two other answers
C13_Witness ==
  /\ hist.lastGet = 500
  /\ net.gets = 3
  /\ pc = "failed"
  /\ err.status = 500

\* C14 (as stated): a transport failure of a POST or a GET reaches the caller
\* only when the phase's attempt budget is exhausted
C14_TransportFailureRetried ==
  (pc = "failed" /\ err.msg = TransportMsg) =>
    IF err.wrap = WrapCreate THEN attempt = maxRetriesCreate - 1
    ELSE i = maxRetriesDownload - 1

\* C14 (amended): a transport failure of a POST or a GET is not retried: the
\* phase returns the error on its first occurrence and Scan fails with it
C14_TransportFailureTerminal ==
  /\ (net.posts > 0 /\ ~hist.lastPost.transport) =>
       /\ pc = "failed"
       /\ result = NoPath
       /\ err = Err(WrapCreate, TransportMsg)
       /\ net.gets = 0
  /\ hist.lastGet = -1 =>
       /\ pc = "failed"
       /\ result = NoPath
       /\ err = Err(WrapDownload, TransportMsg)
       /\ ~file.exists

\* the first GET got no response and Scan failed with 29 attempts left
C14_Witness ==
  /\ hist.lastGet = -1
  /\ net.gets = 1
  /\ i = 0
  /\ pc = "failed"
  /\ err.msg = TransportMsg

\* C15: the phases of a Scan run in sequence: a GET is issued only after
\* createScanJob returned a location, a submission failure polls nothing, and
\* no POST follows the first GET
C15_PhasesInSequence ==
  /\ net.gets > 0 =>
       /\ hist.lastPost.transport
       /\ hist.lastPost.status = StatusCreated
       /\ jobURL # <<>>
       /\ jobURL = hist.lastPost.location
       /\ sleeps.grace = 1
       /\ net.posts = hist.postsAtPoll
       /\ pc \notin {"idle", "submit", "gateC", "grace"}
  /\ (pc = "failed" /\ err.wrap = WrapCreate) =>
       /\ net.gets = 0
       /\ sleeps.grace = 0
       /\ ~file.exists

\* a retrieval failed after all its GETs, and the only POST is the first one
C15_Witness ==
  /\ pc = "failed"
  /\ err.wrap = WrapDownload
  /\ err.msg = NotReadyMsg
  /\ net.gets >= maxRetriesDownload
  /\ net.posts = 1

\* C16: a 201 with a location to the first POST and a 200 with a non-empty
\* body to the first GET give a file equal to that body after one 2-second
\* grace sleep, taken between the submission and the first GET, and no other
\* sleep
C16_EndToEnd ==
  /\ (/\ net.posts = 1
      /\ net.gets = 1
      /\ hist.got200
      /\ hist.served # <<>>
      /\ pc \in {"verify", "done"}) =>
       /\ file = FileOf(hist.served)
       /\ sleeps = [backoff |-> 0, grace |-> 1, poll |-> 0]
       /\ prompts = [create |-> 0, download |-> 0]
       /\ pc = "done" => (result = OutputFile(format) /\ err = NoErr)
  /\ pc \in {"idle", "submit", "gateC", "grace"} => sleeps.grace = 0
  /\ (pc = "poll" /\ net.gets = 0) => sleeps.grace = 1

\* one POST, one GET, the body in the returned file
C16_Witness ==
  /\ pc = "done"
  /\ net.posts = 1
  /\ net.gets = 1
  /\ file = FileOf(<<1>>)
  /\ result = OutputFile(format)

\* C17: the prompt aborts the scan when the line it read, trimmed and
\* lower-cased, is "quit" or "q", and when reading failed; on every other
\* line, the empty one included, the loop it was called from goes on
C17_InputDecidesGate ==
  hist.lastInput # NoInput =>
    LET input == hist.lastInput
        answer == TrimSpace(ToLower(input.line))
        quits == answer \in { <<"q", "u", "i", "t">>, <<"q">> }
        aborted == pc = "failed" /\ err.msg = AbortedMsg /\ result = NoPath
    IN /\ (input.eof \/ quits) => aborted
       /\ (~input.eof /\ ~quits) => pc \in {"submit", "poll"}

\* an answer of " Quit " has aborted the scan
C17_Witness ==
  /\ hist.lastInput = [line |-> <<" ", "Q", "u", "i", "t", " ", "\n">>, eof |-> FALSE]
  /\ pc = "failed"
  /\ err.msg = AbortedMsg

\* C18: getScannerStatus keeps nothing between calls: each call issues a GET
\* and returns the state the device reports in that answer; a call that gets
\* no answer, a non-200 status or a malformed document returns an error and
\* no status
C18_ProbeReflectsDevice ==
  /\ net.probesC = prompts.create
  /\ pc = "gateD" => (hist.probedD /\ hist.lastProbeResp # NoProbeResponse)
  /\ hist.lastProbeResp # NoProbeResponse =>
       LET answer == hist.lastProbeResp
           good == answer.transport /\ answer.status = 200 /\ answer.wellFormed
       IN /\ hist.lastProbe.ok <=> good
          /\ good => hist.lastProbe.State = answer.State
          /\ ~good => hist.lastProbe.State = ""

\* two probes in consecutive turns, the device reporting Idle and then Jamming
C18_Witness ==
  /\ hist.prevProbe = [ok |-> TRUE, State |-> "Idle"]
  /\ hist.lastProbeResp.State = "Jamming"
  /\ hist.lastProbe = [ok |-> TRUE, State |-> "Jamming"]
  /\ pc = "gateD"

\* C19: for .pdf, .png, .jpg and .jpeg in any case every POST carries the
\* ScanSettings with DocumentFormat application/pdf, image/png and image/jpeg
\* respectively, the same on every resubmission; any other extension fails
\* Scan before any request
C19_DocumentFormatOfExtension ==
  LET lower == ToLower(format)
      expected == IF lower = <<".", "p", "d", "f">> THEN "application/pdf"
                  ELSE IF lower = <<".", "p", "n", "g">> THEN "image/png"
                  ELSE IF lower = <<".", "j", "p", "g">> THEN "image/jpeg"
                  ELSE IF lower = <<".", "j", "p", "e", "g">> THEN "image/jpeg"
                  ELSE "unsupported"
  IN /\ net.posts = 0 => hist.sent = {}
     /\ net.posts > 0 =>
          /\ expected # "unsupported"
          /\ hist.sent = {ScanSettings(expected)}
     /\ (pc # "idle" /\ expected = "unsupported") =>
          /\ pc = "failed"
          /\ result = NoPath
          /\ err = Err("", UnsupportedMsg)
          /\ net = [posts |-> 0, gets |-> 0, probesC |-> 0]
     /\ (pc # "idle" /\ expected # "unsupported") => err.msg # UnsupportedMsg

\* six POSTs for an upper-case extension, all with the image/png payload
C19_Witness ==
  /\ format = <<".", "P", "N", "G">>
  /\ net.posts = 6
  /\ hist.sent = {ScanSettings("image/png")}

\* C20 (as stated): in a run without -output whose scan produced a temporary
\* file, that file no longer exists once the program has exited, whether the
\* upload succeeded or failed
C20_TempFileRemovedOnExit ==
  (mpc = "exit" /\ outputPath = <<>> /\ pc = "done") => ~file.exists

\* C21 (as stated): for a scanner URL of any length main builds exactly one
\* scanner and does not crash: the eSCL scanner when the URL begins with
\* "http://" or "https://", the SANE scanner otherwise
C21_SelectsOneScanner ==
  LET url == config.ScannerURL
      http == Len(url) >= 7 /\ SubSeq(url, 1, 7) = <<"h", "t", "t", "p", ":", "/", "/">>
      https == Len(url) >= 8
               /\ SubSeq(url, 1, 8) = <<"h", "t", "t", "p", "s", ":", "/", "/">>
  IN (outputFormat # <<>> /\ mpc # "select") =>
       /\ exit.code # 2
       /\ scanner = IF http \/ https THEN "escl" ELSE "sane"

\* C22: loadConfig resolves the scanner URL, the Paperless URL and the token
\* to the flag when it is not empty and to the environment variable
\* otherwise; it fails exactly when the resolved scanner URL is empty, or
\* upload is requested and the resolved Paperless URL or token is empty
C22_FlagThenEnvironment ==
  mpc = "configured" =>
    LET url == IF call.scannerURL # <<>> THEN call.scannerURL ELSE call.env.SCANNER_URL
        purl == IF call.paperlessURL # "" THEN call.paperlessURL ELSE call.env.PAPERLESS_URL
        token == IF call.paperlessToken # "" THEN call.paperlessToken
                 ELSE call.env.PAPERLESS_TOKEN
        fails == url = <<>> \/ (call.requirePaperless /\ (purl = "" \/ token = ""))
    IN /\ loaded.ok <=> ~fails
       /\ loaded.ok =>
            loaded.config = [ScannerURL |-> url, PaperlessURL |-> purl, PaperlessToken |-> token]
       /\ ~loaded.ok => loaded.config = NoConfig

\* without upload, a flag wins over the environment for the Paperless URL while
\* the token is missing everywhere, and loadConfig succeeds
C22_Witness ==
  /\ mpc = "configured"
  /\ ~call.requirePaperless
  /\ call.paperlessURL = "http://flag"
  /\ call.env.PAPERLESS_URL = "http://env"
  /\ call.paperlessToken = ""
  /\ call.env.PAPERLESS_TOKEN = ""
  /\ loaded.ok
  /\ loaded.config.PaperlessURL = "http://flag"
  /\ loaded.config.PaperlessToken = ""

\* C23: in createScanJob the first 503 leads to the prompt whatever the status
\* probe returned; the probe is issued once, before the prompt, and neither
\* the prompt nor the loop counter depends on what it returned
C23_First503AlwaysPrompts ==
  /\ net.probesC = prompts.create
  /\ hist.n503C >= 1 => (prompts.create = 1 /\ net.probesC = 1)
  /\ hist.n503C = 0 => prompts.create = 0
  /\ pc = "gateC" =>
       /\ hist.n503C = 1
       /\ hist.lastPost.status = 503
       /\ hist.lastProbeResp # NoProbeResponse
       /\ ~promptedC
       /\ attempt = net.posts - 1
       /\ sleeps.backoff = 0
  /\ (pc = "submit" /\ promptedC /\ hist.postsSinceGateC = 0) => attempt = 0

\* the prompt is pending although the probe got no answer from the device
C23_Witness ==
  /\ pc = "gateC"
  /\ ~hist.lastProbeResp.transport
  /\ ~hist.lastProbe.ok
  /\ net.probesC = 1
  /\ prompts.create = 1

\* C24: in downloadDocument a 503 whose status probe fails leaves the gate
\* unused and costs one attempt and one 1-second sleep; once the gate has been
\* used, a further 503 is answered with neither a probe nor a prompt
C24_FailedProbeKeepsGate ==
  /\ (/\ hist.lastGet = 503
      /\ hist.lastProbeResp # NoProbeResponse
      /\ pc \notin {"submit", "gateC", "grace"}
      /\ \/ ~hist.lastProbeResp.transport
         \/ hist.lastProbeResp.status # 200
         \/ ~hist.lastProbeResp.wellFormed) =>
       /\ ~promptedD
       /\ prompts.download = 0
       /\ i = net.gets
       /\ sleeps.poll = net.gets
       /\ IF net.gets < 30 THEN pc = "poll" ELSE (pc = "failed" /\ err.msg = NotReadyMsg)
  /\ (promptedD /\ hist.getsSinceGateD >= 1 /\ hist.lastGet = 503) =>
       /\ hist.lastProbeResp = NoProbeResponse
       /\ ~hist.probedD
       /\ prompts.download = 1
       /\ i = hist.getsSinceGateD + 1
       /\ sleeps.poll = net.gets - 1
       /\ pc \in {"poll", "failed"}

\* a 503 whose probe failed is followed by a 503 with the device in Jamming,
\* and the prompt is pending
C24_Witness ==
  /\ pc = "gateD"
  /\ hist.prevProbe = [ok |-> FALSE, State |-> ""]
  /\ hist.lastProbe = [ok |-> TRUE, State |-> "Jamming"]
  /\ prompts.download = 1
  /\ net.gets >= 2

\* C25: when every network call returns and the operator answers each prompt,
\* every run of Scan ends in success or failure, after at most 1+5 POSTs and
\* at most 30+30 GETs
C25_ScanTerminates ==
  /\ [](net.posts <= 1 + 5 /\ net.gets <= 30 + 30)
  /\ <>(pc \in {"done", "failed"})

\* a run that ended after six POSTs and the most GETs the retrieval loop makes
C25_Witness ==
  /\ pc \in {"done", "failed"}
  /\ net.posts = 6
  /\ net.gets = 59
  /\ prompts = [create |-> 1, download |-> 1]

\* C26: in createScanJob the loop runs with attempt > 0 only after the gate
\* was used: the first POST succeeds, prompts or ends the call, so a second
\* POST and every backoff sleep come after the operator continued, and the
\* return of 'failed to create scan job after 5 attempts' is never reached
C26_RetryOnlyAfterGate ==
  /\ attempt > 0 => promptedC
  /\ net.posts >= 2 => (promptedC /\ prompts.create = 1)
  /\ sleeps.backoff > 0 => promptedC
  /\ (net.posts = 1 /\ pc \notin {"submit", "gateC"}) =>
       \/ hist.lastPost.status = 201
       \/ pc = "failed"
  /\ attempt < 5
  /\ err.msg # "failed to create scan job after 5 attempts"

\* after Continue two POSTs were made, one backoff sleep taken, a third is due
C26_Witness ==
  /\ pc = "submit"
  /\ promptedC
  /\ attempt = 2
  /\ sleeps.backoff = 1
  /\ net.posts = 3

\* C27: when the body of a 200 response fails while it is copied into the
\* output file, downloadDocument returns an error and Scan returns no path:
\* a file that holds less than the served body is never the result of Scan
C27_PartialFileNotSurfaced ==
  /\ (hist.got200 /\ file.exists /\ file.data # hist.served) =>
       /\ pc = "failed"
       /\ result = NoPath
       /\ err = Err("failed to download scan", "copy failed")
  /\ err.msg = "copy failed" => (hist.got200 /\ file.exists /\ result = NoPath)
  /\ result # NoPath => file = FileOf(hist.served)

\* the copy of a one-byte body failed before the byte was written: the file
\* exists and is empty, Scan has failed
C27_Witness ==
  /\ pc = "failed"
  /\ hist.got200
  /\ hist.served = <<1>>
  /\ file = FileOf(<<>>)
  /\ err.msg = "copy failed"
  /\ result = NoPath

\* C28: main runs scan, save, upload, cleanup in this order: an upload is
\* attempted only after the scan succeeded and, with -output, after the scan
\* file was moved to the output path; the upload reads the file at the output
\* path, and that file is still there when the program ends
C28_ScanSaveUploadCleanup ==
  /\ Len(uploads) <= 1
  /\ (mpc \in {"upload", "cleanup"} \/ uploads # <<>>
      \/ exit.msg = "Upload to Paperless failed") =>
       /\ pc = "done"
       /\ err = NoErr
       /\ result # NoPath
       /\ outputPath # <<>> =>
            /\ scanFile = outputPath
            /\ saved.exists
            /\ ~file.exists
       /\ outputPath = <<>> => (scanFile = result /\ ~saved.exists)
  /\ uploads # <<>> =>
       /\ uploadToPaperless
       /\ uploads[1].path = scanFile
       /\ outputPath # <<>> => (uploads[1].path = outputPath /\ uploads[1].data = saved.data)
       /\ (outputPath = <<>> /\ exit.code # 0) => uploads[1].data = file.data
  /\ (mpc = "exit" /\ exit.code = 0 /\ outputPath # <<>> /\ exit.msg # "usage") =>
       /\ saved.exists
       /\ uploadToPaperless => Len(uploads) = 1

\* a run with -output and upload ended well: Paperless received the bytes of
\* the file at the output path, which is still there, and the temporary file
\* is gone
C28_Witness ==
  /\ mpc = "exit"
  /\ exit.code = 0
  /\ scanner = "escl"
  /\ outputPath = <<"s", ".", "p", "d", "f">>
  /\ uploads = << [path |-> outputPath, data |-> <<1>>, status |-> 201] >>
  /\ saved = FileOf(<<1>>)
  /\ file = Absent

====
